---- MODULE Spec2Model ----
(***************************************************************************)
(* A model of the openroutergo chat-completion builder: the builder's      *)
(* fields and fluent setters, the Go slices behind its message and tool    *)
(* lists, Clone, the assembly of the request body and Execute's pipeline.  *)
(***************************************************************************)
EXTENDS Integers, Sequences, FiniteSets, TLC

VARIABLES
    heap,       \* the backing arrays of every slice: array id -> cells
    builders,   \* the chatCompletionBuilder objects, by handle
    calls,      \* history: per builder, the message setters called on it
    ret,        \* what the most recent operation returned to its caller
    inflight    \* per goroutine, the Execute call it is in the middle of

vars == <<heap, builders, calls, ret, inflight>>

(***************************************************************************)
(* Bounds of the model.                                                    *)
(***************************************************************************)
MaxMsgs == 2
MaxTools == 1
MaxSet == 2
MaxAsmMsgs == 1
MaxCloneMsgs == 5
MaxCloneBuilders == 2
MaxGoroutines == 2

(***************************************************************************)
(* Input alphabets.                                                        *)
(***************************************************************************)
Contents == {"a", "b"}
CloneContents == {"a"}
AsmContents == {"a"}
FloatVals == {0, 1}
IntVals == {0, 1}
ModelVals == {"", "m1"}
ToolChoiceVals == {"none", "auto", "required", "", "Auto", "myTool"}
Unsupported == "unsupported"
ResponseFormatVals == {"nil", "json_object", Unsupported}
ToolVals == {[Description |-> "", Name |-> "getWeather", Parameters |-> "schema"]}
CtxVals == {"request", "nil"}

NoValue == "none"

(***************************************************************************)
(* chatCompletionRole.                                                     *)
(***************************************************************************)
RoleSystem == "system"
RoleUser == "user"
RoleAssistant == "assistant"

(***************************************************************************)
(* optional.Optional[T].                                                   *)
(***************************************************************************)
Unset(zero) == [IsSet |-> FALSE, Value |-> zero]
Set(v) == [IsSet |-> TRUE, Value |-> v]

(***************************************************************************)
(* Go slices.  A slice is a header (array, len, cap) over a backing array  *)
(* of the heap; append writes in place while len < cap and otherwise       *)
(* moves the elements to a fresh array of a larger capacity.               *)
(***************************************************************************)
ZeroCell == [zero |-> TRUE]
EmptySlice == [arr |-> 0, len |-> 0, cap |-> 0]

Elems(h, s) == [k \in 1..s.len |-> h[s.arr][k]]

GrowCap(cap) == IF cap = 0 THEN 1 ELSE 2 * cap

GoAppend(h, s, x) ==
    IF s.len < s.cap
    THEN [heap |-> [h EXCEPT ![s.arr][s.len + 1] = x],
          slice |-> [s EXCEPT !.len = s.len + 1]]
    ELSE LET nc == GrowCap(s.cap)
             cells == [k \in 1..nc |->
                          IF k <= s.len THEN h[s.arr][k]
                          ELSE IF k = s.len + 1 THEN x ELSE ZeroCell]
         IN  [heap |-> Append(h, cells),
              slice |-> [arr |-> Len(h) + 1, len |-> s.len + 1, cap |-> nc]]

\* A copy of the slice's elements in an array of its own.
CopySlice(h, s) ==
    IF s.len = 0
    THEN [heap |-> h, slice |-> EmptySlice]
    ELSE [heap |-> Append(h, Elems(h, s)),
          slice |-> [arr |-> Len(h) + 1, len |-> s.len, cap |-> s.len]]

(***************************************************************************)
(* Arrays no slice refers to are collected, and the arrays that remain are *)
(* numbered in the order the builders refer to them: an array's address is *)
(* not observable, which slices share it is.                               *)
(***************************************************************************)
Refs(bs) ==
    [k \in 1..(2 * Len(bs)) |->
        IF k % 2 = 1 THEN bs[(k + 1) \div 2].messages.arr
                     ELSE bs[k \div 2].tools.arr]

Compact(h, bs) ==
    LET refs == Refs(bs)
        live == {refs[k] : k \in DOMAIN refs} \ {0}
        first == [a \in live |->
                     CHOOSE k \in DOMAIN refs :
                         refs[k] = a /\ \A j \in 1..(k - 1) : refs[j] # a]
        rank == [a \in live \cup {0} |->
                    IF a = 0 THEN 0
                    ELSE Cardinality({b \in live : first[b] <= first[a]})]
    IN  [heap |-> [n \in 1..Cardinality(live) |->
                      h[CHOOSE a \in live : rank[a] = n]],
         builders |-> [i \in DOMAIN bs |->
                          [bs[i] EXCEPT !.messages.arr = rank[@],
                                        !.tools.arr = rank[@]]]]

Handles == 1..Len(builders)

\* The message-setter calls made so far, over all builders.
RECURSIVE OwnCalls(_)
OwnCalls(n) ==
    IF n = 0 THEN 0
    ELSE OwnCalls(n - 1)
         + Cardinality({k \in DOMAIN calls[n] : calls[n][k].on = n})

TotalAppends == OwnCalls(Len(calls))

Messages(i) == Elems(heap, builders[i].messages)
ToolsOf(i) == Elems(heap, builders[i].tools)

(***************************************************************************)
(* The fallback model list and the stop sequences of a Configuration:      *)
(* ordered sequences, empty at first.                                      *)
(***************************************************************************)
SequenceFields == [modelFallbacks |-> <<>>, stop |-> <<>>]

(***************************************************************************)
(* NewChatCompletion: every optional unset, empty messages and tools.      *)
(***************************************************************************)
NewChatCompletion ==
    SequenceFields @@
    [ctx |-> "background",
     model |-> Unset(""),
     messages |-> EmptySlice,
     tools |-> EmptySlice,
     temperature |-> Unset(0),
     topP |-> Unset(0),
     topK |-> Unset(0),
     frecuencyPenalty |-> Unset(0),
     presencePenalty |-> Unset(0),
     repetitionPenalty |-> Unset(0),
     minP |-> Unset(0),
     topA |-> Unset(0),
     seed |-> Unset(0),
     maxTokens |-> Unset(0),
     responseFormat |-> Unset("nil"),
     structuredOutputs |-> Unset(FALSE),
     toolChoice |-> Unset(""),
     maxPromptPrice |-> Unset(0),
     maxCompletionPrice |-> Unset(0)]

\* The goroutines of the caller; none is inside Execute at first.
Goroutines == 1..MaxGoroutines
Idle == [busy |-> FALSE]

Init ==
    /\ heap = <<>>
    /\ builders = <<NewChatCompletion>>
    /\ calls = << <<>> >>
    /\ inflight = [g \in Goroutines |-> Idle]
    /\ ret = [op |-> "NewChatCompletion", handle |-> 1]

(***************************************************************************)
(* The message setters: each appends one message with its own role and     *)
(* returns the receiver.                                                   *)
(***************************************************************************)
AddMessage(op, i, role, content) ==
    LET r == GoAppend(heap, builders[i].messages, [Role |-> role, Content |-> content])
        c == Compact(r.heap, [builders EXCEPT ![i].messages = r.slice])
    IN  /\ heap' = c.heap
        /\ builders' = c.builders
        /\ calls' = [calls EXCEPT ![i] =
                        Append(@, [setter |-> op, content |-> content, on |-> i])]
        /\ ret' = [op |-> op, recv |-> i, handle |-> i]
        /\ UNCHANGED inflight

WithSystemMessage(i, message) ==
    AddMessage("WithSystemMessage", i, RoleSystem, message)

WithUserMessage(i, message) ==
    AddMessage("WithUserMessage", i, RoleUser, message)

WithAssistantMessageAsUser(i, message) ==
    AddMessage("WithAssistantMessage", i, RoleUser, message)

WithAssistantMessage(i, message) ==
    AddMessage("WithAssistantMessage", i, RoleAssistant, message)

MessageSetters == {"WithSystemMessage", "WithUserMessage", "WithAssistantMessage"}

(***************************************************************************)
(* Clone: a new builder with the same fields and its own copies of the     *)
(* message and tool sequences.                                             *)
(***************************************************************************)
CloneShallow(h, b) == [heap |-> h, builder |-> b]

CloneOf(h, b) ==
    LET m == CopySlice(h, b.messages)
        t == CopySlice(m.heap, b.tools)
    IN  [heap |-> t.heap,
         builder |-> [b EXCEPT !.messages = m.slice, !.tools = t.slice]]

Clone(i) ==
    LET n == CloneOf(heap, builders[i])
        c == Compact(n.heap, Append(builders, n.builder))
    IN  /\ heap' = c.heap
        /\ builders' = c.builders
        /\ calls' = Append(calls, calls[i])
        /\ ret' = [op |-> "Clone", recv |-> i, handle |-> Len(builders) + 1]
        /\ UNCHANGED inflight

(***************************************************************************)
(* WithTool appends a tool of type "function".                             *)
(***************************************************************************)
WithTool(i, tool) ==
    LET r == GoAppend(heap, builders[i].tools, [Type |-> "function", Function |-> tool])
        c == Compact(r.heap, [builders EXCEPT ![i].tools = r.slice])
    IN  /\ heap' = c.heap
        /\ builders' = c.builders
        /\ ret' = [op |-> "WithTool", recv |-> i, handle |-> i]
        /\ UNCHANGED <<calls, inflight>>

(***************************************************************************)
(* WithModelFallback and the stop-sequence setter each push onto their     *)
(* sequence, in call order.                                                *)
(***************************************************************************)
WithModelFallback(i, modelFallback) ==
    /\ builders' = [builders EXCEPT ![i].modelFallbacks = Append(@, modelFallback)]
    /\ ret' = [op |-> "WithModelFallback", recv |-> i, handle |-> i]
    /\ UNCHANGED <<heap, calls, inflight>>

AddStopSequence(i, stop) ==
    /\ builders' = [builders EXCEPT ![i].stop = Append(@, stop)]
    /\ ret' = [op |-> "AddStopSequence", recv |-> i, handle |-> i]
    /\ UNCHANGED <<heap, calls, inflight>>

(***************************************************************************)
(* The scalar setters: each stores Optional{IsSet: true, Value} in its own *)
(* field and returns the receiver.                                         *)
(***************************************************************************)
SetFieldResetOthers(op, i, field, value) ==
    /\ builders' = [builders EXCEPT ![i] =
                        [f \in DOMAIN @ |->
                            IF f = field THEN value
                            ELSE IF f \in {"ctx", "messages", "tools", "modelFallbacks", "stop"}
                            THEN @[f]
                            ELSE [@[f] EXCEPT !.IsSet = FALSE]]]
    /\ ret' = [op |-> op, recv |-> i, handle |-> i]
    /\ UNCHANGED <<heap, calls, inflight>>

\* A setter with clone semantics: the receiver stays as it was and the handle
\* returned is a new Configuration that holds the change.
SetFieldOnCopy(op, i, field, value) ==
    /\ builders' = Append(builders, [builders[i] EXCEPT ![field] = value])
    /\ calls' = Append(calls, calls[i])
    /\ ret' = [op |-> op, recv |-> i, handle |-> Len(builders) + 1]
    /\ UNCHANGED <<heap, inflight>>

\* The assignment b.field = value of a setter; b is the Configuration the
\* receiver points to.
AssignResetOthers(b, field, value) ==
    [f \in DOMAIN b |->
        IF f = field THEN value
        ELSE IF f \in {"ctx", "messages", "tools", "modelFallbacks", "stop"} THEN b[f]
        ELSE [b[f] EXCEPT !.IsSet = FALSE]]

\* An assignment that keeps the value a field was first set to.
AssignOnce(b, field, value) ==
    IF field # "ctx" /\ b[field].IsSet THEN b ELSE [b EXCEPT ![field] = value]

Assign(b, field, value) == [b EXCEPT ![field] = value]

SetField(op, i, field, value) ==
    /\ builders' = [builders EXCEPT ![i] = Assign(@, field, value)]
    /\ ret' = [op |-> op, recv |-> i, handle |-> i]
    /\ UNCHANGED <<heap, calls, inflight>>

WithContext(i, ctx) == SetField("WithContext", i, "ctx", ctx)

WithModel(i, model) == SetField("WithModel", i, "model", Set(model))

WithTemperature(i, temperature) ==
    SetField("WithTemperature", i, "temperature", Set(temperature))

WithTopP(i, topP) == SetField("WithTopP", i, "topP", Set(topP))

WithTopK(i, topK) == SetField("WithTopK", i, "topK", Set(topK))

WithFrequencyPenalty(i, frequencyPenalty) ==
    SetField("WithFrequencyPenalty", i, "frecuencyPenalty", Set(frequencyPenalty))

WithPresencePenalty(i, presencePenalty) ==
    SetField("WithPresencePenalty", i, "presencePenalty", Set(presencePenalty))

WithRepetitionPenalty(i, repetitionPenalty) ==
    SetField("WithRepetitionPenalty", i, "repetitionPenalty", Set(repetitionPenalty))

WithMinP(i, minP) == SetField("WithMinP", i, "minP", Set(minP))

WithTopA(i, topA) == SetField("WithTopA", i, "topA", Set(topA))

WithSeed(i, seed) == SetField("WithSeed", i, "seed", Set(seed))

WithMaxTokens(i, maxTokens) == SetField("WithMaxTokens", i, "maxTokens", Set(maxTokens))

WithResponseFormat(i, responseFormat) ==
    SetField("WithResponseFormat", i, "responseFormat", Set(responseFormat))

WithStructuredOutputs(i, structuredOutputs) ==
    SetField("WithStructuredOutputs", i, "structuredOutputs", Set(structuredOutputs))

WithToolChoice(i, toolChoice) ==
    SetField("WithToolChoice", i, "toolChoice", Set(toolChoice))

WithMaxPricePromptOnly(i, maxPromptPrice, maxCompletionPrice) ==
    /\ builders' = [builders EXCEPT ![i].maxPromptPrice = Set(maxPromptPrice)]
    /\ ret' = [op |-> "WithMaxPrice", recv |-> i, handle |-> i]
    /\ UNCHANGED <<heap, calls, inflight>>

\* The two assignments of WithMaxPrice.
AssignMaxPrice(b, maxPromptPrice, maxCompletionPrice) ==
    Assign(Assign(b, "maxPromptPrice", Set(maxPromptPrice)),
           "maxCompletionPrice", Set(maxCompletionPrice))

WithMaxPrice(i, maxPromptPrice, maxCompletionPrice) ==
    /\ builders' = [builders EXCEPT ![i] =
                        AssignMaxPrice(@, maxPromptPrice, maxCompletionPrice)]
    /\ ret' = [op |-> "WithMaxPrice", recv |-> i, handle |-> i]
    /\ UNCHANGED <<heap, calls, inflight>>

(***************************************************************************)
(* JSON values, as encoding/json writes and reads them.                    *)
(***************************************************************************)
JNull == [t |-> "null"]
JStr(s) == [t |-> "string", v |-> s]
JNum(n) == [t |-> "number", v |-> n]
JBool(b) == [t |-> "bool", v |-> b]
JArr(a) == [t |-> "array", v |-> a]
JObj(o) == [t |-> "object", v |-> o]
JBad == [t |-> "unsupported"]

\* chatCompletionMessage: `json:"role"` through chatCompletionRole.MarshalJSON,
\* `json:"content"`.
MessageJSON(m) == JObj([role |-> JStr(m.Role), content |-> JStr(m.Content)])

\* ChatCompletionTool: description is omitted when empty.
ToolJSON(f) ==
    JObj(IF f.Description = ""
         THEN [name |-> JStr(f.Name), parameters |-> JStr(f.Parameters)]
         ELSE [description |-> JStr(f.Description), name |-> JStr(f.Name),
               parameters |-> JStr(f.Parameters)])

ToolFunctionJSON(t) == JObj([type |-> JStr(t.Type), function |-> ToolJSON(t.Function)])

\* map[string]any: a nil map is null, a value json cannot encode fails.
MapJSON(m) ==
    IF m = "nil" THEN JNull
    ELSE IF m = Unsupported THEN JBad
    ELSE JObj([type |-> JStr(m)])

(***************************************************************************)
(* The request body Execute assembles.                                     *)
(***************************************************************************)
PresentAlways(o) == TRUE

Present(o) == o.IsSet

PriceKeyAlways(p, c) == TRUE

EitherSet(p, c) == p.IsSet \/ c.IsSet

BothSet(p, c) == p.IsSet /\ c.IsSet

IsLiteralAnyCase(v) == v \in {"none", "auto", "required", "Auto"}

IsToolChoiceLiteral(v) == v \in {"none", "auto", "required"}

ToolChoiceJSON(v) ==
    IF IsToolChoiceLiteral(v)
    THEN JStr(v)
    ELSE JObj([type |-> JStr("function"), function |-> JObj([name |-> JStr(v)])])

MaxPriceJSON(p, c) == JObj([prompt |-> JNum(p.Value), completion |-> JNum(c.Value)])

NonEmptyAlways(s) == TRUE

NonEmpty(s) == s.len > 0

BodyKeys(b) ==
    {k \in {"messages"} : NonEmpty(b.messages)}
    \cup {k \in {"tools"} : NonEmpty(b.tools)}
    \cup {k \in {"model"} : Present(b.model)}
    \cup {k \in {"temperature"} : Present(b.temperature)}
    \cup {k \in {"top_p"} : Present(b.topP)}
    \cup {k \in {"top_k"} : Present(b.topK)}
    \cup {k \in {"frequency_penalty"} : Present(b.frecuencyPenalty)}
    \cup {k \in {"presence_penalty"} : Present(b.presencePenalty)}
    \cup {k \in {"repetition_penalty"} : Present(b.repetitionPenalty)}
    \cup {k \in {"min_p"} : Present(b.minP)}
    \cup {k \in {"top_a"} : Present(b.topA)}
    \cup {k \in {"seed"} : Present(b.seed)}
    \cup {k \in {"max_tokens"} : Present(b.maxTokens)}
    \cup {k \in {"response_format"} : Present(b.responseFormat)}
    \cup {k \in {"structured_outputs"} : Present(b.structuredOutputs)}
    \cup {k \in {"tool_choice"} : Present(b.toolChoice)}
    \cup {k \in {"max_price"} : BothSet(b.maxPromptPrice, b.maxCompletionPrice)}

BodyValue(h, b, k) ==
    CASE k = "messages" ->
            JArr([n \in 1..b.messages.len |-> MessageJSON(Elems(h, b.messages)[n])])
      [] k = "tools" ->
            JArr([n \in 1..b.tools.len |-> ToolFunctionJSON(Elems(h, b.tools)[n])])
      [] k = "model" -> JStr(b.model.Value)
      [] k = "temperature" -> JNum(b.temperature.Value)
      [] k = "top_p" -> JNum(b.topP.Value)
      [] k = "top_k" -> JNum(b.topK.Value)
      [] k = "frequency_penalty" -> JNum(b.frecuencyPenalty.Value)
      [] k = "presence_penalty" -> JNum(b.presencePenalty.Value)
      [] k = "repetition_penalty" -> JNum(b.repetitionPenalty.Value)
      [] k = "min_p" -> JNum(b.minP.Value)
      [] k = "top_a" -> JNum(b.topA.Value)
      [] k = "seed" -> JNum(b.seed.Value)
      [] k = "max_tokens" -> JNum(b.maxTokens.Value)
      [] k = "response_format" -> MapJSON(b.responseFormat.Value)
      [] k = "structured_outputs" -> JBool(b.structuredOutputs.Value)
      [] k = "tool_choice" -> ToolChoiceJSON(b.toolChoice.Value)
      [] k = "max_price" -> MaxPriceJSON(b.maxPromptPrice, b.maxCompletionPrice)

\* The fallback models as "models" and the stop sequences as "stop", each only
\* when it is not empty.
SequenceBody(b) ==
    [k \in {"models" : n \in DOMAIN b.modelFallbacks} |->
        JArr([n \in DOMAIN b.modelFallbacks |-> JStr(b.modelFallbacks[n])])]
    @@ [k \in {"stop" : n \in DOMAIN b.stop} |->
        JArr([n \in DOMAIN b.stop |-> JStr(b.stop[n])])]

RequestBodyMap(h, b) == [k \in BodyKeys(b) |-> BodyValue(h, b, k)] @@ SequenceBody(b)

\* json.Marshal of the map fails when a value cannot be encoded.
MarshalFails(body) == \E k \in DOMAIN body : body[k] = JBad

(***************************************************************************)
(* The transport: what httpClient.Do answers.                              *)
(***************************************************************************)
StatusOK == 200
StatusPaymentRequired == 402

ChoiceJSON(content) ==
    JObj([message |-> JObj([role |-> JStr(RoleAssistant), content |-> JStr(content)])])

SuccessBody(n) ==
    JObj([id |-> JStr("gen-1"),
          choices |-> JArr([k \in 1..n |-> ChoiceJSON(IF k = 1 THEN "r1" ELSE "r2")])])

ErrorBody ==
    JObj([error |-> JObj([code |-> JNum(StatusPaymentRequired),
                          message |-> JStr("insufficient credit")])])

WrongShapeBody == JObj([id |-> JStr("gen-1"), choices |-> JStr("oops")])

GarbledBody == [t |-> "invalid"]

\* {}: JSON, but with neither id nor choices.
EmptyObjectBody == JObj(<<>>)

Bodies == {"one choice", "two choices", "error", "wrong shape", "garbled", "empty object"}

ResponseBody(name) ==
    CASE name = "one choice" -> SuccessBody(1)
      [] name = "two choices" -> SuccessBody(2)
      [] name = "error" -> ErrorBody
      [] name = "wrong shape" -> WrongShapeBody
      [] name = "garbled" -> GarbledBody
      [] name = "empty object" -> EmptyObjectBody

Transport ==
    {[kind |-> "error"]}
    \cup {[kind |-> "response", status |-> StatusOK, body |-> bd] : bd \in Bodies}
    \cup {[kind |-> "response", status |-> StatusPaymentRequired, body |-> bd] :
              bd \in {"error", "garbled"}}

(***************************************************************************)
(* Decoding the response body into ChatCompletionResponse: absent keys     *)
(* leave the zero value, unknown keys are skipped, a value of the wrong    *)
(* JSON type or a body that is not JSON is an error.                       *)
(***************************************************************************)
ZeroResponse == [ID |-> "", Choices |-> <<>>]

HasKey(o, k) == k \in DOMAIN o.v

DecodeString(o, k) ==
    IF ~HasKey(o, k) \/ o.v[k] = JNull THEN [ok |-> TRUE, v |-> ""]
    ELSE IF o.v[k].t = "string" THEN [ok |-> TRUE, v |-> o.v[k].v]
    ELSE [ok |-> FALSE, v |-> ""]

DecodeMessage(o) ==
    IF o.t # "object" THEN [ok |-> FALSE, v |-> [Role |-> "", Content |-> ""]]
    ELSE LET r == DecodeString(o, "role")
             c == DecodeString(o, "content")
         IN  [ok |-> r.ok /\ c.ok, v |-> [Role |-> r.v, Content |-> c.v]]

DecodeChoice(o) ==
    IF o.t # "object" THEN [ok |-> FALSE, v |-> [Message |-> [Role |-> "", Content |-> ""]]]
    ELSE IF ~HasKey(o, "message")
         THEN [ok |-> TRUE, v |-> [Message |-> [Role |-> "", Content |-> ""]]]
         ELSE LET m == DecodeMessage(o.v.message)
              IN  [ok |-> m.ok, v |-> [Message |-> m.v]]

DecodeChoices(o) ==
    IF ~HasKey(o, "choices") \/ o.v.choices = JNull THEN [ok |-> TRUE, v |-> <<>>]
    ELSE IF o.v.choices.t # "array" THEN [ok |-> FALSE, v |-> <<>>]
    ELSE LET a == o.v.choices.v
         IN  [ok |-> \A k \in DOMAIN a : DecodeChoice(a[k]).ok,
              v |-> [k \in DOMAIN a |-> DecodeChoice(a[k]).v]]

DecodeResponse(body) ==
    IF body.t # "object" THEN [ok |-> FALSE, v |-> ZeroResponse]
    ELSE LET id == DecodeString(body, "id")
             ch == DecodeChoices(body)
         IN  [ok |-> id.ok /\ ch.ok, v |-> [ID |-> id.v, Choices |-> ch.v]]

(***************************************************************************)
(* Errors.                                                                 *)
(***************************************************************************)
Nil == [kind |-> "nil"]
ErrMessagesRequired == [kind |-> "ErrMessagesRequired"]
ErrMarshal == [kind |-> "failed to marshal request body"]
ErrCreateRequest == [kind |-> "failed to create request"]
ErrSendRequest == [kind |-> "failed to send request"]
ErrStatusNoCode(code) == [kind |-> "request failed with status code", code |-> 0]
ErrStatus(code) == [kind |-> "request failed with status code", code |-> code]
ErrDecode == [kind |-> "failed to decode response"]

(***************************************************************************)
(* The Configuration handed back with Execute's result: a clone of the     *)
(* receiver taken before the call, whatever the outcome.                   *)
(***************************************************************************)
SnapshotValue(h, b) ==
    [b EXCEPT !.messages = Elems(h, b.messages), !.tools = Elems(h, b.tools)]

SnapshotNilOnError(h, b, response, err) ==
    [nil |-> err # Nil, config |-> SnapshotValue(h, b)]

SnapshotWithReply(h, b, response, err) ==
    [nil |-> FALSE,
     config |-> [SnapshotValue(h, b) EXCEPT !.messages =
                    IF err = Nil /\ Len(response.Choices) > 0
                    THEN Append(@, response.Choices[1].Message)
                    ELSE @]]

ExecuteSnapshot(h, b, response, err) ==
    [nil |-> FALSE, config |-> SnapshotValue(h, b)]

(***************************************************************************)
(* Execute.                                                                *)
(***************************************************************************)
NoMessagesNever(b) == FALSE

NoMessages(b) == b.messages.len = 0

NotSent == [kind |-> "not reached"]

\* response, error, and what the call did on the way: whether the body was
\* assembled, how often newRequest and httpClient.Do were called, and what Do
\* answered.
Outcome(response, err, assembled, body, requests, sends, answer) ==
    [response |-> response, err |-> err, assembled |-> assembled, body |-> body,
     requests |-> requests, sends |-> sends, answer |-> answer]

\* httpClient.Do failed: the error is wrapped and returned; Do is not called
\* again.
SendFailedRetried(body, answer) ==
    Outcome(ZeroResponse, ErrSendRequest, TRUE, body, 2, 2, answer)

SendFailed(body, answer) ==
    Outcome(ZeroResponse, ErrSendRequest, TRUE, body, 1, 1, answer)

\* Decode failed: the response that was being filled is dropped.
DecodeFailedPartial(d, body, answer) ==
    Outcome(d.v, ErrDecode, TRUE, body, 1, 1, answer)

DecodeFailed(d, body, answer) ==
    Outcome(ZeroResponse, ErrDecode, TRUE, body, 1, 1, answer)

ExecuteOutcome(h, b, answer) ==
    IF NoMessages(b)
    THEN Outcome(ZeroResponse, ErrMessagesRequired, FALSE, <<>>, 0, 0, NotSent)
    ELSE LET body == RequestBodyMap(h, b) IN
         IF MarshalFails(body)
         THEN Outcome(ZeroResponse, ErrMarshal, TRUE, body, 0, 0, NotSent)
         ELSE IF b.ctx = "nil"
         THEN Outcome(ZeroResponse, ErrCreateRequest, TRUE, body, 1, 0, NotSent)
         ELSE IF answer.kind = "error"
         THEN SendFailed(body, answer)
         ELSE IF answer.status # StatusOK
         THEN Outcome(ZeroResponse, ErrStatus(answer.status), TRUE, body, 1, 1, answer)
         ELSE LET d == DecodeResponse(ResponseBody(answer.body)) IN
              IF ~d.ok
              THEN DecodeFailed(d, body, answer)
              ELSE Outcome(d.v, Nil, TRUE, body, 1, 1, answer)

\* An Execute that uses up the messages it sent.
ExecuteConsumes(i, answer) ==
    LET o == ExecuteOutcome(heap, builders[i], answer)
    IN  /\ ret' = [op |-> "Execute", recv |-> i, out |-> o,
                   snapshot |-> ExecuteSnapshot(heap, builders[i], o.response, o.err)]
        /\ builders' = [builders EXCEPT ![i].messages = EmptySlice]
        /\ UNCHANGED <<heap, calls, inflight>>

Execute(i, answer) ==
    LET o == ExecuteOutcome(heap, builders[i], answer)
    IN  /\ ret' = [op |-> "Execute", recv |-> i, out |-> o,
                   snapshot |-> ExecuteSnapshot(heap, builders[i], o.response, o.err)]
        /\ UNCHANGED <<heap, builders, calls, inflight>>

(***************************************************************************)
(* Assembly: one Configuration, a user message, every scalar setter, and   *)
(* Execute.                                                                *)
(***************************************************************************)
ScalarFields ==
    {"model", "temperature", "topP", "topK", "frecuencyPenalty", "presencePenalty",
     "repetitionPenalty", "minP", "topA", "seed", "maxTokens", "responseFormat",
     "structuredOutputs", "toolChoice", "maxPromptPrice"}

SetCount(b) == Cardinality({f \in ScalarFields : b[f].IsSet})

CanSet(i, f) == builders[i][f].IsSet \/ SetCount(builders[i]) < MaxSet

AsmTransport ==
    {[kind |-> "error"], [kind |-> "response", status |-> StatusOK, body |-> "one choice"]}

NextAssemble ==
    \/ \E i \in Handles, m \in AsmContents :
          TotalAppends < MaxAsmMsgs /\ WithUserMessage(i, m)
    \/ \E i \in Handles, v \in ModelVals : CanSet(i, "model") /\ WithModel(i, v)
    \/ \E i \in Handles, v \in FloatVals :
          CanSet(i, "temperature") /\ WithTemperature(i, v)
    \/ \E i \in Handles, v \in FloatVals : CanSet(i, "topP") /\ WithTopP(i, v)
    \/ \E i \in Handles, v \in IntVals : CanSet(i, "topK") /\ WithTopK(i, v)
    \/ \E i \in Handles, v \in FloatVals :
          CanSet(i, "frecuencyPenalty") /\ WithFrequencyPenalty(i, v)
    \/ \E i \in Handles, v \in FloatVals :
          CanSet(i, "presencePenalty") /\ WithPresencePenalty(i, v)
    \/ \E i \in Handles, v \in FloatVals :
          CanSet(i, "repetitionPenalty") /\ WithRepetitionPenalty(i, v)
    \/ \E i \in Handles, v \in FloatVals : CanSet(i, "minP") /\ WithMinP(i, v)
    \/ \E i \in Handles, v \in FloatVals : CanSet(i, "topA") /\ WithTopA(i, v)
    \/ \E i \in Handles, v \in IntVals : CanSet(i, "seed") /\ WithSeed(i, v)
    \/ \E i \in Handles, v \in IntVals : CanSet(i, "maxTokens") /\ WithMaxTokens(i, v)
    \/ \E i \in Handles, v \in ResponseFormatVals :
          CanSet(i, "responseFormat") /\ WithResponseFormat(i, v)
    \/ \E i \in Handles, v \in BOOLEAN :
          CanSet(i, "structuredOutputs") /\ WithStructuredOutputs(i, v)
    \/ \E i \in Handles, v \in ToolChoiceVals :
          CanSet(i, "toolChoice") /\ WithToolChoice(i, v)
    \/ \E i \in Handles, p \in FloatVals, c \in FloatVals :
          CanSet(i, "maxPromptPrice") /\ WithMaxPrice(i, p, c)
    \/ \E i \in Handles, answer \in AsmTransport : Execute(i, answer)

SpecAssemble == Init /\ [][NextAssemble]_vars

(***************************************************************************)
(* Conversation: one Configuration, the message setters, tools, the        *)
(* context, and Execute against every answer of the transport.             *)
(***************************************************************************)
NextConverse ==
    \/ \E i \in Handles, m \in Contents :
          TotalAppends < MaxMsgs /\ WithSystemMessage(i, m)
    \/ \E i \in Handles, m \in Contents :
          TotalAppends < MaxMsgs /\ WithUserMessage(i, m)
    \/ \E i \in Handles, m \in Contents :
          TotalAppends < MaxMsgs /\ WithAssistantMessage(i, m)
    \/ \E i \in Handles, tool \in ToolVals :
          builders[i].tools.len < MaxTools /\ WithTool(i, tool)
    \/ \E i \in Handles, c \in CtxVals : WithContext(i, c)
    \/ \E i \in Handles, answer \in Transport : Execute(i, answer)

SpecConverse == Init /\ [][NextConverse]_vars

(***************************************************************************)
(* Conversation branching: the message setters and Clone alone.            *)
(***************************************************************************)
NextClone ==
    \/ \E i \in Handles, m \in CloneContents :
          TotalAppends < MaxCloneMsgs /\ WithSystemMessage(i, m)
    \/ \E i \in Handles, m \in CloneContents :
          TotalAppends < MaxCloneMsgs /\ WithUserMessage(i, m)
    \/ \E i \in Handles, m \in CloneContents :
          TotalAppends < MaxCloneMsgs /\ WithAssistantMessage(i, m)
    \/ \E i \in Handles : Len(builders) < MaxCloneBuilders /\ Clone(i)

SpecClone == Init /\ [][NextClone]_vars

Executed == ret.op = "Execute"
Assembled == Executed /\ ret.out.assembled
Receiver == builders[ret.recv]

\* C2: Execute on a Configuration with no messages returns ErrMessagesRequired
\* and the zero Response, and neither creates a request nor sends one,
\* whatever other fields are set.
C2_EmptyMessagesRejected ==
    (Executed /\ Receiver.messages.len = 0)
        => /\ ret.out.err = ErrMessagesRequired
           /\ ret.out.response = ZeroResponse
           /\ ret.out.requests = 0
           /\ ret.out.sends = 0

\* Execute was called on a Configuration with two scalar fields set and no
\* message.
C2_Witness ==
    /\ Executed
    /\ Receiver.messages.len = 0
    /\ SetCount(Receiver) = 2
    /\ ret.out.err = ErrMessagesRequired

KeyOf(f) ==
    CASE f = "model" -> "model"
      [] f = "temperature" -> "temperature"
      [] f = "topP" -> "top_p"
      [] f = "topK" -> "top_k"
      [] f = "frecuencyPenalty" -> "frequency_penalty"
      [] f = "presencePenalty" -> "presence_penalty"
      [] f = "repetitionPenalty" -> "repetition_penalty"
      [] f = "minP" -> "min_p"
      [] f = "topA" -> "top_a"
      [] f = "seed" -> "seed"
      [] f = "maxTokens" -> "max_tokens"
      [] f = "responseFormat" -> "response_format"
      [] f = "structuredOutputs" -> "structured_outputs"
      [] f = "toolChoice" -> "tool_choice"

NumberFields ==
    {"temperature", "topP", "topK", "frecuencyPenalty", "presencePenalty",
     "repetitionPenalty", "minP", "topA", "seed", "maxTokens"}

\* C4: the assembled body holds the key of an optional scalar field exactly
\* when the field is set; a set field is written with its value even when the
\* value is 0, false or the empty string, and an unset field adds no key.
C4_KeyIffSet ==
    Assembled
        => /\ \A f \in ScalarFields \ {"maxPromptPrice"} :
                  (KeyOf(f) \in DOMAIN ret.out.body) <=> Receiver[f].IsSet
           /\ \A f \in NumberFields :
                  Receiver[f].IsSet => ret.out.body[KeyOf(f)] = JNum(Receiver[f].Value)
           /\ Receiver.model.IsSet => ret.out.body["model"] = JStr(Receiver.model.Value)
           /\ Receiver.structuredOutputs.IsSet
                  => ret.out.body["structured_outputs"]
                         = JBool(Receiver.structuredOutputs.Value)

\* A body assembled with temperature 0 and the empty model name set, and
\* nothing else.
C4_Witness ==
    /\ Assembled
    /\ Receiver.temperature = Set(0)
    /\ Receiver.model = Set("")
    /\ DOMAIN ret.out.body = {"messages", "model", "temperature"}

OptionalFloats == {Unset(0)} \cup {Set(v) : v \in FloatVals}

\* C5: the body holds max_price exactly when both price ceilings are set,
\* and then it is the object {prompt, completion} of the two stored values;
\* with only one ceiling set there is no max_price key.
C5_MaxPriceIffBoth ==
    /\ Assembled
          => /\ ("max_price" \in DOMAIN ret.out.body)
                    <=> (Receiver.maxPromptPrice.IsSet /\ Receiver.maxCompletionPrice.IsSet)
             /\ ("max_price" \in DOMAIN ret.out.body)
                    => ret.out.body["max_price"]
                           = JObj([prompt |-> JNum(Receiver.maxPromptPrice.Value),
                                   completion |-> JNum(Receiver.maxCompletionPrice.Value)])
    /\ \A i \in Handles, p \in OptionalFloats, c \in OptionalFloats :
          (p.IsSet # c.IsSet)
              => "max_price" \notin
                     DOMAIN RequestBodyMap(heap, [builders[i] EXCEPT
                                                     !.maxPromptPrice = p,
                                                     !.maxCompletionPrice = c])

\* A body assembled after WithMaxPrice(0, 1).
C5_Witness ==
    /\ Assembled
    /\ Receiver.maxPromptPrice = Set(0)
    /\ Receiver.maxCompletionPrice = Set(1)
    /\ "max_price" \in DOMAIN ret.out.body

\* C6: a set tool choice is written as the bare string when it is exactly
\* "none", "auto" or "required", and as {type: "function", function: {name}}
\* for every other string, the empty string and "Auto" included.
C6_ToolChoiceEncoding ==
    (Assembled /\ Receiver.toolChoice.IsSet)
        => LET v == Receiver.toolChoice.Value
               tc == ret.out.body["tool_choice"]
           IN  IF v = "none" \/ v = "auto" \/ v = "required"
               THEN tc.t = "string" /\ tc.v = v
               ELSE /\ tc.t = "object"
                    /\ DOMAIN tc.v = {"type", "function"}
                    /\ tc.v["type"] = JStr("function")
                    /\ tc.v["function"] = JObj([name |-> JStr(v)])

\* A body assembled with the tool choice "Auto", written as a function object.
C6_Witness ==
    /\ Assembled
    /\ Receiver.toolChoice = Set("Auto")
    /\ ret.out.body["tool_choice"].t = "object"

SetterRole(op) ==
    CASE op = "WithSystemMessage" -> "system"
      [] op = "WithUserMessage" -> "user"
      [] op = "WithAssistantMessage" -> "assistant"

\* C7: the messages array of the body lists exactly the messages the setters
\* added, each with the role of its setter and its content, in call order.
C7_MessageOrder ==
    Assembled
        => LET log == calls[ret.recv]
           IN  ret.out.body["messages"]
                   = JArr([k \in 1..Len(log) |->
                              JObj([role |-> JStr(SetterRole(log[k].setter)),
                                    content |-> JStr(log[k].content)])])

\* A body assembled after WithAssistantMessage("a") and then
\* WithSystemMessage("b").
C7_Witness ==
    /\ Assembled
    /\ Len(calls[ret.recv]) = 2
    /\ calls[ret.recv][1].setter = "WithAssistantMessage"
    /\ calls[ret.recv][1].content = "a"
    /\ calls[ret.recv][2].setter = "WithSystemMessage"
    /\ calls[ret.recv][2].content = "b"

Answered == Executed /\ ret.out.answer.kind = "response"

IsAPIError(body) == body.t = "object" /\ "error" \in DOMAIN body.v

\* C8: when the transport answers with a JSON object that has a top-level
\* error key, Execute returns an error carrying the API's code and message and
\* the zero Response, whatever the HTTP status.
C8_APIErrorClassified ==
    (Answered /\ IsAPIError(ResponseBody(ret.out.answer.body)))
        => LET e == ResponseBody(ret.out.answer.body).v["error"].v
           IN  /\ ret.out.err # Nil
               /\ ret.out.response = ZeroResponse
               /\ DOMAIN ret.out.err = {"kind", "code", "message"}
               /\ ret.out.err.code = e.code.v
               /\ ret.out.err.message = e.message.v

WithReply(msgs) ==
    Append(msgs, [Role |-> RoleAssistant,
                  Content |-> ret.out.response.Choices[1].Message.Content])

\* C10: after a successful Execute the completion the caller goes on with
\* (the one handed back, or the receiver itself) has the model's reply
\* appended to its messages as an assistant message.
C10_ReplyAppended ==
    (Executed /\ ret.out.err = Nil /\ Len(ret.out.response.Choices) > 0)
        => \/ /\ Len(ret.snapshot.config.messages) > 0
              /\ ret.snapshot.config.messages
                     = WithReply(SubSeq(ret.snapshot.config.messages, 1,
                                        Len(ret.snapshot.config.messages) - 1))
           \/ /\ Len(Messages(ret.recv)) > 0
              /\ Messages(ret.recv)
                     = WithReply(SubSeq(Messages(ret.recv), 1,
                                        Len(Messages(ret.recv)) - 1))

(***************************************************************************)
(* optional.Optional[T] on the wire.  JSON text is a sequence of           *)
(* characters; a float64 is counted in tenths (31 is 3.1); a map is nil or *)
(* a list of string entries.                                               *)
(***************************************************************************)
Quote == "\""
Backslash == "\\"
NullLiteral == <<"n", "u", "l", "l">>

OptionalTypes == {"string", "int", "float64", "bool", "map"}

NilMap == [nil |-> TRUE, entries |-> <<>>]
MapOf(entries) == [nil |-> FALSE, entries |-> entries]

Zero(T) ==
    CASE T = "string" -> <<>>
      [] T = "int" -> 0
      [] T = "float64" -> 0
      [] T = "bool" -> FALSE
      [] T = "map" -> NilMap

Values(T) ==
    CASE T = "string" -> {<<>>, <<"h", "i">>, <<Quote>>}
      [] T = "int" -> {0, 1, 0 - 1, 42}
      [] T = "float64" -> {0, 10, 5, 31, 0 - 25}
      [] T = "bool" -> BOOLEAN
      [] T = "map" -> {NilMap, MapOf(<<>>), MapOf(<<[key |-> <<"k">>, value |-> <<"v">>]>>)}

Optionals(T) == {Unset(Zero(T))} \cup {Set(v) : v \in Values(T)}

DigitChars == <<"0", "1", "2", "3", "4", "5", "6", "7", "8", "9">>
IsDigit(c) == \E d \in 1..10 : DigitChars[d] = c
DigitValue(c) == (CHOOSE d \in 1..10 : DigitChars[d] = c) - 1

RECURSIVE Digits(_)
Digits(n) ==
    IF n < 10 THEN <<DigitChars[n + 1]>>
    ELSE Append(Digits(n \div 10), DigitChars[(n % 10) + 1])

RECURSIVE DigitsValue(_)
DigitsValue(b) ==
    IF Len(b) = 0 THEN 0
    ELSE 10 * DigitsValue(SubSeq(b, 1, Len(b) - 1)) + DigitValue(b[Len(b)])

Abs(n) == IF n < 0 THEN 0 - n ELSE n
Sign(n) == IF n < 0 THEN <<"-">> ELSE <<>>

\* strconv's shortest form: 42, -1.
EncodeInt(n) == Sign(n) \o Digits(Abs(n))

\* The shortest form of a float64: 1, 0.5, 3.1, -2.5.
EncodeFloat(t) ==
    Sign(t) \o Digits(Abs(t) \div 10)
        \o (IF Abs(t) % 10 = 0 THEN <<>> ELSE <<".", DigitChars[(Abs(t) % 10) + 1]>>)

EncodeBool(v) ==
    IF v THEN <<"t", "r", "u", "e">> ELSE <<"f", "a", "l", "s", "e">>

\* A string literal: quotes and backslashes inside are escaped.
RECURSIVE Escape(_)
Escape(s) ==
    IF Len(s) = 0 THEN <<>>
    ELSE (IF Head(s) = Quote \/ Head(s) = Backslash
          THEN <<Backslash, Head(s)>> ELSE <<Head(s)>>) \o Escape(Tail(s))

EncodeString(s) == <<Quote>> \o Escape(s) \o <<Quote>>

RECURSIVE EncodeEntries(_)
EncodeEntries(es) ==
    IF Len(es) = 0 THEN <<>>
    ELSE EncodeString(Head(es).key) \o <<":">> \o EncodeString(Head(es).value)
         \o (IF Len(es) > 1 THEN <<",">> ELSE <<>>) \o EncodeEntries(Tail(es))

\* A nil map is written as null.
EncodeMap(m) ==
    IF m.nil THEN NullLiteral ELSE <<"{">> \o EncodeEntries(m.entries) \o <<"}">>

\* json.Marshal of a value of type T.
Encode(T, v) ==
    CASE T = "string" -> EncodeString(v)
      [] T = "int" -> EncodeInt(v)
      [] T = "float64" -> EncodeFloat(v)
      [] T = "bool" -> EncodeBool(v)
      [] T = "map" -> EncodeMap(v)

(***************************************************************************)
(* json.Unmarshal of a text into a value of type T: ok is false when the   *)
(* text is not JSON or is JSON of another type.                            *)
(***************************************************************************)
AllDigits(b) == Len(b) > 0 /\ \A k \in DOMAIN b : IsDigit(b[k])

\* No leading zero, except the number 0 itself.
IsIntegerPart(b) == AllDigits(b) /\ (Len(b) = 1 \/ b[1] # "0")

Unsigned(b) == IF Len(b) > 0 /\ b[1] = "-" THEN Tail(b) ELSE b
Negative(b) == Len(b) > 0 /\ b[1] = "-"

ParseInt(b) ==
    IF IsIntegerPart(Unsigned(b))
    THEN [ok |-> TRUE,
          v |-> IF Negative(b) THEN 0 - DigitsValue(Unsigned(b))
                ELSE DigitsValue(Unsigned(b))]
    ELSE [ok |-> FALSE, v |-> 0]

\* An integer part and at most one fractional digit, in tenths.
ParseFloat(b) ==
    LET u == Unsigned(b)
        dots == {k \in DOMAIN u : u[k] = "."}
    IN  IF dots = {}
        THEN [ok |-> ParseInt(b).ok, v |-> 10 * ParseInt(b).v]
        ELSE LET d == CHOOSE k \in dots : TRUE
                 whole == SubSeq(u, 1, d - 1)
                 frac == SubSeq(u, d + 1, Len(u))
             IN  IF Cardinality(dots) = 1 /\ IsIntegerPart(whole)
                    /\ Len(frac) = 1 /\ AllDigits(frac)
                 THEN [ok |-> TRUE,
                       v |-> (IF Negative(b) THEN 0 - 1 ELSE 1)
                                 * (10 * DigitsValue(whole) + DigitsValue(frac))]
                 ELSE [ok |-> FALSE, v |-> 0]

ParseBool(b) ==
    IF b = EncodeBool(TRUE) THEN [ok |-> TRUE, v |-> TRUE]
    ELSE IF b = EncodeBool(FALSE) THEN [ok |-> TRUE, v |-> FALSE]
    ELSE [ok |-> FALSE, v |-> FALSE]

\* The characters between the quotes: a backslash escapes a quote, a
\* backslash or a slash; a bare quote is not allowed.
RECURSIVE Unescape(_)
Unescape(b) ==
    IF Len(b) = 0 THEN [ok |-> TRUE, v |-> <<>>]
    ELSE IF Head(b) = Quote THEN [ok |-> FALSE, v |-> <<>>]
    ELSE IF Head(b) = Backslash
         THEN IF Len(b) >= 2 /\ b[2] \in {Quote, Backslash, "/"}
              THEN LET r == Unescape(SubSeq(b, 3, Len(b)))
                   IN  [ok |-> r.ok, v |-> <<b[2]>> \o r.v]
              ELSE [ok |-> FALSE, v |-> <<>>]
    ELSE LET r == Unescape(Tail(b))
         IN  [ok |-> r.ok, v |-> <<Head(b)>> \o r.v]

ParseString(b) ==
    IF Len(b) >= 2 /\ b[1] = Quote /\ b[Len(b)] = Quote
    THEN LET r == Unescape(SubSeq(b, 2, Len(b) - 1))
         IN  [ok |-> r.ok, v |-> IF r.ok THEN r.v ELSE <<>>]
    ELSE [ok |-> FALSE, v |-> <<>>]

\* The position of the quote that closes the string literal starting at
\* b[1], or 0.
RECURSIVE ScanString(_, _)
ScanString(b, k) ==
    IF k > Len(b) THEN 0
    ELSE IF b[k] = Backslash THEN ScanString(b, k + 2)
    ELSE IF b[k] = Quote THEN k
    ELSE ScanString(b, k + 1)

\* "key":"value" entries separated by commas.
RECURSIVE ParseEntries(_)
ParseEntries(b) ==
    LET bad == [ok |-> FALSE, v |-> <<>>]
        ke == IF Len(b) > 0 /\ b[1] = Quote THEN ScanString(b, 2) ELSE 0
    IN  IF ke = 0 \/ Len(b) < ke + 1 \/ b[ke + 1] # ":" THEN bad
        ELSE LET rest == SubSeq(b, ke + 2, Len(b))
                 ve == IF Len(rest) > 0 /\ rest[1] = Quote THEN ScanString(rest, 2) ELSE 0
                 key == ParseString(SubSeq(b, 1, ke))
                 val == ParseString(SubSeq(rest, 1, ve))
             IN  IF ve = 0 \/ ~key.ok \/ ~val.ok THEN bad
                 ELSE IF ve = Len(rest)
                 THEN [ok |-> TRUE, v |-> <<[key |-> key.v, value |-> val.v]>>]
                 ELSE IF rest[ve + 1] # "," THEN bad
                 ELSE LET more == ParseEntries(SubSeq(rest, ve + 2, Len(rest)))
                      IN  [ok |-> more.ok,
                           v |-> <<[key |-> key.v, value |-> val.v]>> \o more.v]

ParseMap(b) ==
    IF b = NullLiteral THEN [ok |-> TRUE, v |-> NilMap]
    ELSE IF Len(b) >= 2 /\ b[1] = "{" /\ b[Len(b)] = "}"
    THEN IF Len(b) = 2 THEN [ok |-> TRUE, v |-> MapOf(<<>>)]
         ELSE LET r == ParseEntries(SubSeq(b, 2, Len(b) - 1))
              IN  [ok |-> r.ok, v |-> IF r.ok THEN MapOf(r.v) ELSE NilMap]
    ELSE [ok |-> FALSE, v |-> NilMap]

\* json.Unmarshal(b, &value) for a value of type T that starts as zero; the
\* null literal leaves a string, a number or a bool as it is.
Parse(T, b) ==
    IF b = NullLiteral THEN [ok |-> TRUE, v |-> Zero(T)]
    ELSE CASE T = "string" -> ParseString(b)
           [] T = "int" -> ParseInt(b)
           [] T = "float64" -> ParseFloat(b)
           [] T = "bool" -> ParseBool(b)
           [] T = "map" -> ParseMap(b)

(***************************************************************************)
(* Optional.MarshalJSON and Optional.UnmarshalJSON.                        *)
(***************************************************************************)
ErrUnmarshal == [kind |-> "json: cannot unmarshal"]

MarshalValueOnly(T, o) == [data |-> Encode(T, o.Value), err |-> Nil]

MarshalOptional(T, o) ==
    IF ~o.IsSet
    THEN [data |-> NullLiteral, err |-> Nil]
    ELSE [data |-> Encode(T, o.Value), err |-> Nil]

UnmarshalKeepValue(T, o, b) ==
    IF Len(b) = 0 \/ b = NullLiteral
    THEN [o |-> [o EXCEPT !.IsSet = FALSE], err |-> Nil]
    ELSE IF ~Parse(T, b).ok
    THEN [o |-> o, err |-> ErrUnmarshal]
    ELSE [o |-> Set(Parse(T, b).v), err |-> Nil]

\* An UnmarshalJSON that has already reset the receiver when parsing fails.
UnmarshalResetOnError(T, o, b) ==
    IF Len(b) = 0 \/ b = NullLiteral
    THEN [o |-> Unset(Zero(T)), err |-> Nil]
    ELSE IF ~Parse(T, b).ok
    THEN [o |-> Unset(Zero(T)), err |-> ErrUnmarshal]
    ELSE [o |-> Set(Parse(T, b).v), err |-> Nil]

UnmarshalOptional(T, o, b) ==
    IF Len(b) = 0 \/ b = NullLiteral
    THEN [o |-> Unset(Zero(T)), err |-> Nil]
    ELSE IF ~Parse(T, b).ok
    THEN [o |-> o, err |-> ErrUnmarshal]
    ELSE [o |-> Set(Parse(T, b).v), err |-> Nil]

\* The texts UnmarshalJSON is called with: every encoding of every value,
\* the null literal, the empty text, and texts that are not JSON or not
\* in shortest form.
Tokens ==
    UNION {{Encode(T, v) : v \in Values(T)} : T \in OptionalTypes}
    \cup {NullLiteral, <<>>, <<"n", "u", "l">>, <<"0", "1">>, <<"1", ".", "0">>,
          <<"1", ".">>, <<Quote, "h">>, <<Quote, Backslash, "/", Quote>>, <<"{">>,
          <<"{", Quote, "k", Quote, "}">>}

OptionalOps == {"Optional", "MarshalJSON", "UnmarshalJSON"}

\* An Optional[T] variable is declared with a literal.
NewOptional(T, o) ==
    /\ ret' = [op |-> "Optional", type |-> T, recv |-> o]
    /\ UNCHANGED <<heap, builders, calls, inflight>>

\* o.MarshalJSON() on the current Optional; the receiver is a copy.
MarshalJSON ==
    /\ ret.op \in OptionalOps
    /\ LET r == MarshalOptional(ret.type, ret.recv)
       IN  ret' = [op |-> "MarshalJSON", type |-> ret.type, recv |-> ret.recv,
                   data |-> r.data, err |-> r.err]
    /\ UNCHANGED <<heap, builders, calls, inflight>>

\* result.UnmarshalJSON(b) on a variable of the same type holding o.  The
\* record keeps whether b is the text the preceding MarshalJSON returned, and
\* the Optional that was marshalled.
UnmarshalJSON(o, b) ==
    /\ ret.op \in OptionalOps
    /\ LET r == UnmarshalOptional(ret.type, o, b)
       IN  ret' = [op |-> "UnmarshalJSON", type |-> ret.type, recv |-> r.o,
                   before |-> o, data |-> b, err |-> r.err,
                   roundTrip |-> (ret.op = "MarshalJSON" /\ b = ret.data),
                   source |-> ret.recv]
    /\ UNCHANGED <<heap, builders, calls, inflight>>

InitOptional ==
    /\ heap = <<>>
    /\ builders = <<NewChatCompletion>>
    /\ calls = << <<>> >>
    /\ inflight = [g \in Goroutines |-> Idle]
    /\ \E T \in OptionalTypes : \E o \in Optionals(T) :
          ret = [op |-> "Optional", type |-> T, recv |-> o]

NextOptional ==
    \/ \E T \in OptionalTypes : \E o \in Optionals(T) : NewOptional(T, o)
    \/ MarshalJSON
    \/ \E o \in Optionals(ret.type), b \in Tokens : UnmarshalJSON(o, b)

SpecOptional == InitOptional /\ [][NextOptional]_vars

Marshalled == ret.op = "MarshalJSON"
Unmarshalled == ret.op = "UnmarshalJSON"

\* The text is the encoding of the Optional's value alone: "hi" gives "hi"
\* in quotes, 42 gives 42, 3.1 gives 3.1, false gives false.
MarshalledAsValue ==
    /\ ret.err = Nil
    /\ ret.data = Encode(ret.type, ret.recv.Value)
    /\ (ret.type = "string" /\ ret.recv.Value = <<"h", "i">>)
          => ret.data = <<Quote, "h", "i", Quote>>
    /\ (ret.type = "int" /\ ret.recv.Value = 42) => ret.data = <<"4", "2">>
    /\ (ret.type = "float64" /\ ret.recv.Value = 31) => ret.data = <<"3", ".", "1">>
    /\ (ret.type = "bool" /\ ret.recv.Value = FALSE)
          => ret.data = <<"f", "a", "l", "s", "e">>

\* C11 as stated: an unset Optional marshals to null, a set one to the
\* encoding of its value, and unmarshalling the text a set Optional
\* marshalled to gives IsSet = true with the same value, for every type.
C11_RoundTripEveryValue ==
    /\ (Marshalled /\ ~ret.recv.IsSet) => ret.data = NullLiteral /\ ret.err = Nil
    /\ (Marshalled /\ ret.recv.IsSet) => MarshalledAsValue
    /\ (Unmarshalled /\ ret.roundTrip /\ ret.source.IsSet)
          => ret.err = Nil /\ ret.recv = Set(ret.source.Value)

\* C11, amended: the same, for every value whose encoding is not the null
\* literal (strings, ints, floats, bools and non-nil maps); a set Optional
\* holding a nil map marshals to null and unmarshals as unset.
C11_RoundTrip ==
    /\ (Marshalled /\ ~ret.recv.IsSet) => ret.data = NullLiteral /\ ret.err = Nil
    /\ (Marshalled /\ ret.recv.IsSet) => MarshalledAsValue
    /\ (Unmarshalled /\ ret.roundTrip /\ ret.source.IsSet
            /\ Encode(ret.type, ret.source.Value) # NullLiteral)
          => ret.err = Nil /\ ret.recv = Set(ret.source.Value)
    /\ (Unmarshalled /\ ret.roundTrip /\ ret.source.IsSet
            /\ Encode(ret.type, ret.source.Value) = NullLiteral)
          => ret.err = Nil /\ ret.recv = Unset(Zero(ret.type))

\* Optional[bool]{IsSet: true, Value: false} was marshalled and the text
\* unmarshalled into a variable that held true.
C11_Witness ==
    /\ Unmarshalled
    /\ ret.roundTrip
    /\ ret.type = "bool"
    /\ ret.source = Set(FALSE)
    /\ ret.before = Set(TRUE)
    /\ ret.recv = Set(FALSE)

\* C12: unmarshalling the null literal leaves the Optional unset with the
\* zero value, and unmarshalling any other valid text leaves it set with the
\* value the text stands for, whatever the Optional held before.
C12_NullUnsetsValueSets ==
    /\ (Unmarshalled /\ ret.data = NullLiteral)
          => ret.err = Nil /\ ret.recv = Unset(Zero(ret.type))
    /\ (Unmarshalled /\ ret.data # NullLiteral /\ ret.data # <<>> /\ ret.err = Nil)
          => ret.recv.IsSet
    /\ Unmarshalled
          => \A v \in Values(ret.type) :
                 (ret.data = Encode(ret.type, v) /\ ret.data # NullLiteral)
                     => ret.err = Nil /\ ret.recv = Set(v)
    /\ (Unmarshalled /\ ret.type = "int" /\ ret.data = <<"4", "2">>)
          => ret.err = Nil /\ ret.recv = Set(42)
    /\ (Unmarshalled /\ ret.type = "float64" /\ ret.data = <<"1", ".", "0">>)
          => ret.err = Nil /\ ret.recv = Set(10)
    /\ (Unmarshalled /\ ret.type = "bool" /\ ret.data = <<"f", "a", "l", "s", "e">>)
          => ret.err = Nil /\ ret.recv = Set(FALSE)
    /\ (Unmarshalled /\ ret.type = "string" /\ ret.data = <<Quote, Quote>>)
          => ret.err = Nil /\ ret.recv = Set(<<>>)

\* An Optional[int] that held 42 was unmarshalled from null.
C12_Witness ==
    /\ Unmarshalled
    /\ ret.type = "int"
    /\ ret.before = Set(42)
    /\ ret.data = NullLiteral
    /\ ret.recv = Unset(0)

OptionalFields == ScalarFields \cup {"maxCompletionPrice"}

\* C13: once an optional field of a Configuration is set it stays set through
\* every later setter call and Execute call on that Configuration.
C13_SetnessMonotonic ==
    [][\A i \in Handles, f \in OptionalFields :
          builders[i][f].IsSet => builders'[i][f].IsSet]_vars

\* Execute ran on a Configuration on which the seed and then (or before) the
\* model had been set, and both are still set.
C13_Witness ==
    /\ Executed
    /\ Receiver.seed = Set(0)
    /\ Receiver.model = Set("m1")

\* C14: in every state reachable through the public setters the two price
\* ceilings are set together or not at all.
C14_PricePairing ==
    \A i \in Handles :
        builders[i].maxPromptPrice.IsSet = builders[i].maxCompletionPrice.IsSet

\* WithMaxPrice(1, 0) has just been called on a Configuration whose
\* temperature was set before.
C14_Witness ==
    /\ ret.op = "WithMaxPrice"
    /\ builders[ret.recv].maxPromptPrice = Set(1)
    /\ builders[ret.recv].maxCompletionPrice = Set(0)
    /\ builders[ret.recv].temperature.IsSet

(***************************************************************************)
(* Sequences: one Configuration, system and user messages, tools, the      *)
(* model, fallback models, stop sequences, and Execute.                    *)
(***************************************************************************)
MaxSeqMsgs == 2
MaxFallbacks == 2
MaxStops == 1

FallbackVals == {"m2", "m3"}
StopVals == {"END"}

NextSequences ==
    \/ \E i \in Handles, m \in AsmContents :
          TotalAppends < MaxSeqMsgs /\ WithSystemMessage(i, m)
    \/ \E i \in Handles, m \in AsmContents :
          TotalAppends < MaxSeqMsgs /\ WithUserMessage(i, m)
    \/ \E i \in Handles, tool \in ToolVals :
          builders[i].tools.len < MaxTools /\ WithTool(i, tool)
    \/ \E i \in Handles, v \in ModelVals : WithModel(i, v)
    \/ \E i \in Handles, v \in FallbackVals :
          Len(builders[i].modelFallbacks) < MaxFallbacks /\ WithModelFallback(i, v)
    \/ \E i \in Handles, v \in StopVals :
          Len(builders[i].stop) < MaxStops /\ AddStopSequence(i, v)
    \/ \E i \in Handles, answer \in AsmTransport : Execute(i, answer)

SpecSequences == Init /\ [][NextSequences]_vars

HasKeyIff(key, present) == (key \in DOMAIN ret.out.body) <=> present

\* C15: the body holds tools exactly when a tool was added, models exactly
\* when a fallback model was added and stop exactly when a stop sequence was
\* added, each listing what was added; and a body that is sent holds a
\* non-empty messages array.
C15_SequencesOnlyWhenNonEmpty ==
    /\ Assembled
          => /\ HasKeyIff("tools", Len(ToolsOf(ret.recv)) > 0)
             /\ HasKeyIff("models", Len(Receiver.modelFallbacks) > 0)
             /\ HasKeyIff("stop", Len(Receiver.stop) > 0)
             /\ \A k \in {"tools", "models", "stop"} \cap DOMAIN ret.out.body :
                    ret.out.body[k].t = "array" /\ Len(ret.out.body[k].v) > 0
             /\ Len(Receiver.modelFallbacks) > 0
                    => ret.out.body["models"]
                           = JArr([n \in DOMAIN Receiver.modelFallbacks |->
                                      JStr(Receiver.modelFallbacks[n])])
    /\ (Executed /\ ret.out.sends > 0)
          => /\ "messages" \in DOMAIN ret.out.body
             /\ ret.out.body["messages"].t = "array"
             /\ Len(ret.out.body["messages"].v) > 0

\* A body was sent for a Configuration with a tool, two fallback models and
\* no stop sequence.
C15_Witness ==
    /\ Executed
    /\ ret.out.sends = 1
    /\ Len(ToolsOf(ret.recv)) = 1
    /\ Receiver.modelFallbacks = <<"m3", "m2">>
    /\ Receiver.stop = <<>>
    /\ DOMAIN ret.out.body = {"messages", "tools", "models"}

\* What the scenario of C16 did to a fresh Configuration.
ScenarioBuilt ==
    /\ Assembled
    /\ calls[ret.recv] = <<[setter |-> "WithSystemMessage", content |-> "a", on |-> ret.recv],
                           [setter |-> "WithUserMessage", content |-> "a", on |-> ret.recv]>>
    /\ Receiver.model = Set("m1")
    /\ Receiver.modelFallbacks = <<"m2">>
    /\ Receiver.tools.len = 0
    /\ Receiver.stop = <<>>

\* C16: a fresh Configuration given one system message, one user message,
\* model "m1" and fallback model "m2" assembles to exactly the keys messages,
\* model and models: the two messages in order, "m1", and ["m2"].
C16_EndToEndAssembly ==
    ScenarioBuilt
        => ret.out.body
               = [messages |-> JArr(<<JObj([role |-> JStr("system"), content |-> JStr("a")]),
                                      JObj([role |-> JStr("user"), content |-> JStr("a")])>>),
                  model |-> JStr("m1"),
                  models |-> JArr(<<JStr("m2")>>)]

\* The scenario was built and its body sent.
C16_Witness ==
    /\ ScenarioBuilt
    /\ ret.out.sends = 1
    /\ ret.out.err = Nil

Failed(kinds) == Executed /\ ret.out.err.kind \in kinds

\* C17: one Execute call sends at most once; after a transport failure, a
\* non-success status or a decode failure it returns the error having sent
\* exactly once.
C17_NoRetry ==
    /\ Executed => ret.out.sends <= 1 /\ ret.out.requests <= 1
    /\ Failed({ErrSendRequest.kind, ErrStatus(0).kind, ErrDecode.kind})
          => ret.out.sends = 1 /\ ret.out.requests = 1 /\ ret.out.err # Nil

\* Execute returned the transport's failure after one send.
C17_Witness ==
    /\ Executed
    /\ ret.out.answer.kind = "error"
    /\ ret.out.err = ErrSendRequest
    /\ ret.out.sends = 1

\* C18: Execute returns either a nil error with the decoded Response, or an
\* error with the zero Response; an error never comes with a partly filled
\* Response.
C18_ResultExclusive ==
    Executed
        => /\ ret.out.err # Nil => ret.out.response = ZeroResponse
           /\ ret.out.err = Nil
                 => /\ Answered
                    /\ ret.out.answer.status = StatusOK
                    /\ ret.out.response = DecodeResponse(ResponseBody(ret.out.answer.body)).v
           /\ (ret.out.err = Nil /\ ret.out.answer.body = "one choice")
                 => ret.out.response
                        = [ID |-> "gen-1",
                           Choices |-> <<[Message |-> [Role |-> "assistant",
                                                       Content |-> "r1"]]>>]

\* The body had an id but choices of the wrong type: decoding failed after
\* the id was read, and the Response returned is still the zero value.
C18_Witness ==
    /\ Executed
    /\ ret.out.answer.kind = "response"
    /\ ret.out.answer.body = "wrong shape"
    /\ ret.out.err = ErrDecode
    /\ ret.out.response = ZeroResponse

\* A body of the expected shape: an object whose id is a string and whose
\* choices is an array of objects, each with a message of role and content.
IsChoice(c) ==
    /\ c.t = "object"
    /\ "message" \in DOMAIN c.v
    /\ c.v["message"].t = "object"
    /\ {"role", "content"} \subseteq DOMAIN c.v["message"].v

MatchesShape(body) ==
    /\ body.t = "object"
    /\ {"id", "choices"} \subseteq DOMAIN body.v
    /\ body.v["id"].t = "string"
    /\ body.v["choices"].t = "array"
    /\ \A k \in DOMAIN body.v["choices"].v : IsChoice(body.v["choices"].v[k])

\* C19: when the transport answers 200 with a body that is not JSON or not of
\* the expected shape (and is not an API error), Execute returns the decode
\* failure, which is none of the other errors; and, API errors aside, Execute
\* never returns the zero Response with a nil error.
C19_DecodeFailureDistinct ==
    /\ (Answered /\ ret.out.answer.status = StatusOK
            /\ ~MatchesShape(ResponseBody(ret.out.answer.body))
            /\ ~IsAPIError(ResponseBody(ret.out.answer.body)))
          => /\ ret.out.err = ErrDecode
             /\ ret.out.err \notin {Nil, ErrSendRequest, ErrMessagesRequired, ErrMarshal,
                                    ErrCreateRequest}
             /\ ret.out.err.kind # ErrStatus(0).kind
    /\ (Executed /\ ~(Answered /\ IsAPIError(ResponseBody(ret.out.answer.body))))
          => ~(ret.out.err = Nil /\ ret.out.response = ZeroResponse)

(***************************************************************************)
(* Execute called from several goroutines.  A call runs up to              *)
(* httpClient.Do, waits there for the server, and runs to its return when  *)
(* the answer arrives; calls of other goroutines may start in between.     *)
(* Execute takes no lock and keeps no record that a call is in progress.   *)
(***************************************************************************)
ErrAlreadyExecuting == [kind |-> "ErrAlreadyExecuting"]

Busy == {g \in Goroutines : inflight[g].busy}

\* Another call on the same Configuration has not returned yet.
Overlaps(g, i) == \E h \in Busy \ {g} : inflight[h].recv = i

\* What Execute returns to goroutine g.
ExecuteResult(g, i, o, overlapped) ==
    [op |-> "Execute", recv |-> i, out |-> o,
     snapshot |-> ExecuteSnapshot(heap, builders[i], o.response, o.err),
     goroutine |-> g, overlapped |-> overlapped]

\* The context newRequest hands to http.NewRequestWithContext.
RequestContextBackground(b) == "background"

RequestContext(b) == b.ctx

\* Why a context is done, or that it is not.
NotDone == "not done"
ContextCauses == {"context canceled", "context deadline exceeded"}

\* Goroutine g calls Execute: it returns at once when the call fails before
\* the request is sent, and otherwise the request is on its way.
ExecuteCall(g, i) ==
    /\ ~inflight[g].busy
    /\ LET early == ExecuteOutcome(heap, builders[i], [kind |-> "error"])
       IN  IF early.sends = 0
           THEN /\ ret' = ExecuteResult(g, i, early, Overlaps(g, i))
                /\ UNCHANGED inflight
           ELSE /\ inflight' = [inflight EXCEPT ![g] =
                                   [busy |-> TRUE, recv |-> i, body |-> early.body,
                                    overlapped |-> Overlaps(g, i),
                                    ctx |-> RequestContext(builders[i]),
                                    done |-> NotDone]]
                /\ UNCHANGED ret
    /\ UNCHANGED <<heap, builders, calls>>

\* The server's answer arrives and the call of goroutine g returns; the body
\* that was sent is the one marshalled before the request went out.
ExecuteReturn(g, answer) ==
    /\ inflight[g].busy
    /\ ret' = ExecuteResult(g, inflight[g].recv,
                            [ExecuteOutcome(heap, builders[inflight[g].recv], answer)
                                EXCEPT !.body = inflight[g].body],
                            inflight[g].overlapped)
    /\ inflight' = [inflight EXCEPT ![g] = Idle]
    /\ UNCHANGED <<heap, builders, calls>>

\* The setters are called while no Execute is in progress.
NextConcurrent ==
    \/ \E i \in Handles, m \in Contents :
          Busy = {} /\ TotalAppends < MaxAsmMsgs /\ WithUserMessage(i, m)
    \/ \E i \in Handles, c \in CtxVals : Busy = {} /\ WithContext(i, c)
    \/ \E g \in Goroutines, i \in Handles : ExecuteCall(g, i)
    \/ \E g \in Goroutines, answer \in Transport : ExecuteReturn(g, answer)

SpecConcurrent == Init /\ [][NextConcurrent]_vars

\* C20: an Execute that is invoked while another Execute on the same
\* Configuration has not returned yet returns ErrAlreadyExecuting and sends
\* no request.
C20_AlreadyExecuting ==
    (Executed /\ ret.overlapped)
        => ret.out.err = ErrAlreadyExecuting /\ ret.out.sends = 0

(***************************************************************************)
(* Branching under concurrency: a base Configuration is built, clones of   *)
(* it are taken, and each clone is handed to a goroutine of its own, which *)
(* appends user messages to it and calls Execute on it.                    *)
(***************************************************************************)
MaxBaseMsgs == 3
MaxBranchMsgs == 2
MaxBranches == 2

\* The clone goroutine g works with.
CloneFor(g) == g + 1

NextBranch ==
    \/ \E m \in CloneContents :
          Len(builders) = 1 /\ Len(calls[1]) < MaxBaseMsgs /\ WithUserMessage(1, m)
    \/ Len(builders) < 1 + MaxBranches /\ Clone(1)
    \/ \E g \in Goroutines, m \in Contents :
          /\ CloneFor(g) \in Handles
          /\ ~inflight[g].busy
          /\ TotalAppends - Len(calls[1]) < MaxBranchMsgs
          /\ WithUserMessage(CloneFor(g), m)
    \/ \E g \in Goroutines : CloneFor(g) \in Handles /\ ExecuteCall(g, CloneFor(g))
    \/ \E g \in Goroutines, answer \in AsmTransport : ExecuteReturn(g, answer)

SpecBranch == Init /\ [][NextBranch]_vars

\* The configuration of builder i as its owner sees it.
ConfigOf(h, bs, i) == SnapshotValue(h, bs[i])

\* C21: with Executes of several goroutines running against clones of one
\* base, every Execute sends the messages of its own Configuration, and a
\* step changes no Configuration other than the receiver of a setter.
C21_ConcurrentClonesIndependent ==
    [][/\ \A j \in Handles :
              ConfigOf(heap', builders', j) # ConfigOf(heap, builders, j)
                  => ret'.op \in MessageSetters /\ ret'.recv = j
       /\ (ret'.op = "Execute" /\ ret'.out.assembled)
              => ret'.out.body["messages"]
                     = JArr([k \in 1..Len(calls[ret'.recv]) |->
                                JObj([role |-> JStr(SetterRole(calls[ret'.recv][k].setter)),
                                      content |-> JStr(calls[ret'.recv][k].content)])])]_vars

\* Two clones of a base of three messages each got a message of its own, and
\* an Execute on the second returned while an Execute on the first was still
\* in progress.
C21_Witness ==
    /\ Len(builders) = 3
    /\ Len(Messages(1)) = 3
    /\ Len(Messages(2)) = 4
    /\ Len(Messages(3)) = 4
    /\ Messages(2)[4] # Messages(3)[4]
    /\ Executed
    /\ ret.recv = 3
    /\ ret.out.sends = 1
    /\ \E g \in Busy : inflight[g].recv = 2

(***************************************************************************)
(* Cancellation: the context of a request that is on its way is cancelled  *)
(* or reaches its deadline, and httpClient.Do returns the context's error. *)
(* context.Background() is never done.                                     *)
(***************************************************************************)
ContextDone(g, cause) ==
    /\ inflight[g].busy
    /\ inflight[g].ctx # "background"
    /\ inflight[g].done = NotDone
    /\ inflight' = [inflight EXCEPT ![g].done = cause]
    /\ UNCHANGED <<heap, builders, calls, ret>>

\* The call of goroutine g is waiting in Do with a context that is done.
Fired(g) == inflight[g].busy /\ inflight[g].done # NotDone

\* Do returns the error of the context that is done.
ExecuteCancelled(g) ==
    /\ Fired(g)
    /\ ExecuteReturn(g, [kind |-> "error", cause |-> inflight[g].done])

NextCancel ==
    \/ \E i \in Handles, m \in AsmContents :
          Busy = {} /\ TotalAppends < MaxAsmMsgs /\ WithUserMessage(i, m)
    \/ \E i \in Handles, c \in CtxVals : Busy = {} /\ WithContext(i, c)
    \/ \E g \in Goroutines, i \in Handles : ExecuteCall(g, i)
    \/ \E g \in Goroutines, cause \in ContextCauses : ContextDone(g, cause)
    \/ \E g \in Goroutines, answer \in Transport : ~Fired(g) /\ ExecuteReturn(g, answer)
    \/ \E g \in Goroutines : ExecuteCancelled(g)

\* The server may never answer; a Do whose context is done does return.
SpecCancel ==
    Init /\ [][NextCancel]_vars /\ \A g \in Goroutines : WF_vars(ExecuteCancelled(g))

\* C22: the request carries the context of the Configuration, and a call
\* whose context is done while the request is on its way eventually returns,
\* with the zero response and the send error that wraps the context's error.
C22_CancelledCallReturns ==
    /\ [][\A g \in Goroutines :
             /\ (~inflight[g].busy /\ inflight'[g].busy)
                    => inflight'[g].ctx = builders[inflight'[g].recv].ctx
             /\ (Fired(g) /\ ~inflight'[g].busy)
                    => /\ ret'.out.err = ErrSendRequest
                       /\ ret'.out.response = ZeroResponse
                       /\ ret'.out.answer.cause = inflight[g].done]_vars
    /\ \A g \in Goroutines : Fired(g) ~> ~inflight[g].busy

C22_Witness ==
    /\ Executed
    /\ ret.out.err = ErrSendRequest
    /\ "cause" \in DOMAIN ret.out.answer
    /\ ret.out.answer.cause = "context deadline exceeded"
    /\ \E g \in Busy : inflight[g].done = NotDone

(***************************************************************************)
(* strutil: URLs and paths are sequences of characters; "t" stands for any *)
(* character other than the slash.                                         *)
(***************************************************************************)
MaxURLLen == 3

Slash == "/"
URLChars == {Slash, "t"}

RECURSIVE StringsUpTo(_)
StringsUpTo(n) ==
    IF n = 0 THEN {<<>>}
    ELSE LET shorter == StringsUpTo(n - 1)
         IN  shorter \cup {Append(str, c) : str \in shorter, c \in URLChars}

URLStrings == StringsUpTo(MaxURLLen)

\* strings.HasSuffix(str, "/") and strings.TrimSuffix(str, "/")
HasSuffixSlash(str) == Len(str) > 0 /\ str[Len(str)] = Slash
TrimSuffixSlash(str) == IF HasSuffixSlash(str) THEN SubSeq(str, 1, Len(str) - 1) ELSE str

RemoveTrailingSlashOnce(str) == TrimSuffixSlash(str)

\* The loop: one pass per trailing slash, then the break.
RECURSIVE RemoveTrailingSlashes(_)
RemoveTrailingSlashes(str) ==
    IF HasSuffixSlash(str) THEN RemoveTrailingSlashes(TrimSuffixSlash(str)) ELSE str

HasPrefixSlash(str) == Len(str) > 0 /\ str[1] = Slash

RECURSIVE RemoveLeadingSlashes(_)
RemoveLeadingSlashes(str) ==
    IF HasPrefixSlash(str) THEN RemoveLeadingSlashes(Tail(str)) ELSE str

CreateEndpoint(baseURL, path) ==
    RemoveTrailingSlashes(baseURL) \o <<Slash>> \o RemoveLeadingSlashes(path)

StrutilOps == {"RemoveTrailingSlashes", "RemoveLeadingSlashes"}

\* One of the two functions is called on str; again tells that str is the
\* result of the same function, returned by the call before.
CallStrutil(op, str, again) ==
    /\ ret' = [op |-> op, str |-> str, again |-> again,
               result |-> IF op = "RemoveTrailingSlashes"
                          THEN RemoveTrailingSlashes(str)
                          ELSE RemoveLeadingSlashes(str)]
    /\ UNCHANGED <<heap, builders, calls, inflight>>

CallAgain ==
    /\ ret.op \in StrutilOps
    /\ ~ret.again
    /\ CallStrutil(ret.op, ret.result, TRUE)

CallCreateEndpoint(baseURL, path) ==
    /\ ret' = [op |-> "CreateEndpoint", baseURL |-> baseURL, path |-> path,
               result |-> CreateEndpoint(baseURL, path)]
    /\ UNCHANGED <<heap, builders, calls, inflight>>

InitStrutil ==
    /\ heap = <<>>
    /\ builders = <<NewChatCompletion>>
    /\ calls = << <<>> >>
    /\ inflight = [g \in Goroutines |-> Idle]
    /\ \E str \in URLStrings :
          ret = [op |-> "RemoveTrailingSlashes", str |-> str, again |-> FALSE,
                 result |-> RemoveTrailingSlashes(str)]

NextStrutil ==
    \/ \E op \in StrutilOps, str \in URLStrings : CallStrutil(op, str, FALSE)
    \/ CallAgain
    \/ \E baseURL \in URLStrings, path \in URLStrings : CallCreateEndpoint(baseURL, path)

SpecStrutil == InitStrutil /\ [][NextStrutil]_vars

Slashes(n) == [k \in 1..n |-> Slash]
NoSlashAtEnd(str) == str = <<>> \/ str[Len(str)] # Slash
NoSlashAtStart(str) == str = <<>> \/ str[1] # Slash

defaultBaseURL ==
    <<"h", "t", "t", "p", "s", ":", Slash, Slash, "o", "p", "e", "n", "r", "o", "u",
      "t", "e", "r", ".", "a", "i", Slash, "a", "p", "i", Slash, "v", "1">>

APIKeys == {<<>>, <<"k">>}

RefererURLs == {<<"r">>}

NewClientBuilder ==
    [baseURL |-> defaultBaseURL, apiKey |-> Unset(<<>>), refererURL |-> Unset(<<>>)]

ErrBaseURLRequired == [kind |-> "ErrBaseURLRequired"]
ErrAPIKeyRequired == [kind |-> "ErrAPIKeyRequired"]

NilClient == [nil |-> TRUE]
ClientOf(b) ==
    [nil |-> FALSE, baseURL |-> b.baseURL, apiKey |-> b.apiKey,
     refererURL |-> b.refererURL]

CreateKeyFirst(b) ==
    IF ~b.apiKey.IsSet THEN [client |-> NilClient, err |-> ErrAPIKeyRequired]
    ELSE IF b.baseURL = <<>> THEN [client |-> NilClient, err |-> ErrBaseURLRequired]
    ELSE [client |-> ClientOf(b), err |-> Nil]

CreateClient(b) ==
    IF b.baseURL = <<>> THEN [client |-> NilClient, err |-> ErrBaseURLRequired]
    ELSE IF ~b.apiKey.IsSet THEN [client |-> NilClient, err |-> ErrAPIKeyRequired]
    ELSE [client |-> ClientOf(b), err |-> Nil]

ClientOps == {"NewClient", "WithBaseURL", "WithAPIKey", "WithRefererURL", "Create"}

NewClient ==
    /\ ret' = [op |-> "NewClient", builder |-> NewClientBuilder]
    /\ UNCHANGED <<heap, builders, calls, inflight>>

ClientWithBaseURL(baseURL) ==
    /\ ret.op \in ClientOps
    /\ ret' = [op |-> "WithBaseURL", arg |-> baseURL,
               builder |-> [ret.builder EXCEPT !.baseURL = RemoveTrailingSlashes(baseURL)]]
    /\ UNCHANGED <<heap, builders, calls, inflight>>

ClientWithAPIKey(apiKey) ==
    /\ ret.op \in ClientOps
    /\ ret' = [op |-> "WithAPIKey", arg |-> apiKey,
               builder |-> [ret.builder EXCEPT !.apiKey = Set(apiKey)]]
    /\ UNCHANGED <<heap, builders, calls, inflight>>

ClientWithRefererURL(refererURL) ==
    /\ ret.op \in ClientOps
    /\ ret' = [op |-> "WithRefererURL", arg |-> refererURL,
               builder |-> [ret.builder EXCEPT !.refererURL = Set(refererURL)]]
    /\ UNCHANGED <<heap, builders, calls, inflight>>

Create ==
    /\ ret.op \in ClientOps
    /\ LET r == CreateClient(ret.builder)
       IN  ret' = [op |-> "Create", builder |-> ret.builder,
                   client |-> r.client, err |-> r.err]
    /\ UNCHANGED <<heap, builders, calls, inflight>>

InitClient ==
    /\ heap = <<>>
    /\ builders = <<NewChatCompletion>>
    /\ calls = << <<>> >>
    /\ inflight = [g \in Goroutines |-> Idle]
    /\ ret = [op |-> "NewClient", builder |-> NewClientBuilder]

NextClient ==
    \/ NewClient
    \/ \E baseURL \in URLStrings : ClientWithBaseURL(baseURL)
    \/ \E apiKey \in APIKeys : ClientWithAPIKey(apiKey)
    \/ \E refererURL \in RefererURLs : ClientWithRefererURL(refererURL)
    \/ Create

SpecClient == InitClient /\ [][NextClient]_vars

\* C24: Create returns no client and ErrBaseURLRequired when the base URL is
\* empty, whether or not an API key was given; otherwise no client and
\* ErrAPIKeyRequired when WithAPIKey was never called; otherwise the client
\* as configured and no error.  A client never comes with an error.
C24_CreateValidates ==
    ret.op = "Create" =>
        LET b == ret.builder IN
        /\ b.baseURL = <<>>
              => ret.client.nil /\ ret.err = ErrBaseURLRequired
        /\ (b.baseURL # <<>> /\ ~b.apiKey.IsSet)
              => ret.client.nil /\ ret.err = ErrAPIKeyRequired
        /\ (b.baseURL # <<>> /\ b.apiKey.IsSet)
              => /\ ~ret.client.nil
                 /\ ret.err = Nil
                 /\ ret.client.baseURL = b.baseURL
                 /\ ret.client.apiKey = b.apiKey
                 /\ ret.client.refererURL = b.refererURL
        /\ ret.err # Nil => ret.client.nil

C24_Witness ==
    /\ ret.op = "Create"
    /\ ret.builder.baseURL = <<>>
    /\ ~ret.builder.apiKey.IsSet
    /\ ret.err = ErrBaseURLRequired

NotSetters == {"NewChatCompletion", "Execute"}

\* C25: a setter returns the handle it was called on and creates no new
\* Configuration; a setter called through the handle a setter returned changes
\* the Configuration the first one was called on, and an Execute through
\* either handle sends the model set before.
C25_SettersReturnReceiver ==
    [][/\ ret'.op \notin NotSetters
             => ret'.handle = ret'.recv /\ Len(builders') = Len(builders)
       /\ (ret.op \notin NotSetters /\ ret'.op \notin NotSetters /\ ret'.recv = ret.handle)
             => builders'[ret.recv] = builders'[ret'.handle]
       /\ (ret.op = "WithModel" /\ ret'.op = "Execute" /\ ret'.out.assembled
             /\ ret'.recv \in {ret.recv, ret.handle})
             => ret'.out.body["model"] = JStr(builders[ret.handle].model.Value)]_vars

\* A body was sent that carries the model and the seed set through the
\* handles the setters returned.
C25_Witness ==
    /\ Assembled
    /\ Receiver.model = Set("m1")
    /\ Receiver.seed = Set(1)
    /\ ret.out.body["model"] = JStr("m1")
    /\ ret.out.body["seed"] = JNum(1)
    /\ Len(builders) = 1

\* The values the setter of a scalar field is called with here.
SetterValues(f) ==
    CASE f = "model" -> ModelVals
      [] f \in {"topK", "seed", "maxTokens"} -> IntVals
      [] f = "responseFormat" -> ResponseFormatVals
      [] f = "structuredOutputs" -> BOOLEAN
      [] f = "toolChoice" -> ToolChoiceVals
      [] OTHER -> FloatVals

\* The Configuration b after the setter of scalar field f was called with v;
\* WithMaxPrice is called with v for both prices.
AfterSetter(b, f, v) ==
    IF f = "maxPromptPrice" THEN AssignMaxPrice(b, v, v) ELSE Assign(b, f, Set(v))

\* Appending user message x and then y to a new Configuration.
AppendedInOrder(x, y) ==
    LET first == GoAppend(<<>>, EmptySlice, [Role |-> RoleUser, Content |-> x])
        second == GoAppend(first.heap, first.slice, [Role |-> RoleUser, Content |-> y])
    IN  Elems(second.heap, second.slice)

MaxOrderSet == 1

\* The setter of scalar field f is called on i with v.
CallSetter(i, f, v) ==
    \/ f = "model" /\ WithModel(i, v)
    \/ f = "temperature" /\ WithTemperature(i, v)
    \/ f = "topP" /\ WithTopP(i, v)
    \/ f = "topK" /\ WithTopK(i, v)
    \/ f = "frecuencyPenalty" /\ WithFrequencyPenalty(i, v)
    \/ f = "presencePenalty" /\ WithPresencePenalty(i, v)
    \/ f = "repetitionPenalty" /\ WithRepetitionPenalty(i, v)
    \/ f = "minP" /\ WithMinP(i, v)
    \/ f = "topA" /\ WithTopA(i, v)
    \/ f = "seed" /\ WithSeed(i, v)
    \/ f = "maxTokens" /\ WithMaxTokens(i, v)
    \/ f = "responseFormat" /\ WithResponseFormat(i, v)
    \/ f = "structuredOutputs" /\ WithStructuredOutputs(i, v)
    \/ f = "toolChoice" /\ WithToolChoice(i, v)
    \/ f = "maxPromptPrice" /\ WithMaxPrice(i, v, v)

\* One Configuration, user messages and a few scalar setters.
NextOrder ==
    \/ \E i \in Handles, m \in AsmContents :
          TotalAppends < MaxAsmMsgs /\ WithUserMessage(i, m)
    \/ \E i \in Handles, f \in ScalarFields : \E v \in SetterValues(f) :
          /\ builders[i][f].IsSet \/ SetCount(builders[i]) < MaxOrderSet
          /\ CallSetter(i, f, v)

SpecOrder == Init /\ [][NextOrder]_vars

\* C26: whatever the Configuration, calling the setters of two distinct
\* scalar fields in either order gives the same Configuration and, when it
\* has messages to send, the same request body; two different messages appended in either order give
\* different message sequences.
C26_ScalarSettersCommute ==
    /\ \A i \in Handles : \A f \in ScalarFields, g \in ScalarFields :
          f # g => \A v \in SetterValues(f), w \in SetterValues(g) :
              LET fg == AfterSetter(AfterSetter(builders[i], f, v), g, w)
                  gf == AfterSetter(AfterSetter(builders[i], g, w), f, v)
              IN  /\ fg = gf
                  /\ NoMessages(builders[i])
                        \/ RequestBodyMap(heap, fg) = RequestBodyMap(heap, gf)
                  /\ fg[f].IsSet /\ fg[g].IsSet
    /\ AppendedInOrder("a", "b") # AppendedInOrder("b", "a")

\* The seed was set on a Configuration with a message, and the temperature
\* can be set next.
C26_Witness ==
    /\ ret.op = "WithSeed"
    /\ Receiver.seed = Set(1)
    /\ AfterSetter(Receiver, "temperature", 0).temperature = Set(0)
    /\ Len(Messages(ret.recv)) = 1

\* The fields the setter of scalar field f assigns.
Assigned(f) == IF f = "maxPromptPrice" THEN {f, "maxCompletionPrice"} ELSE {f}

\* The fields of Configuration i that a step changes.
Changed(i) == {g \in DOMAIN builders[i] : builders'[i][g] # builders[i][g]}

\* C27: calling the setter of a scalar field with v1 and then with v2 leaves
\* the field set to v2, as one call with v2 does, and the request body carries
\* v2; the call changes no other optional field, nor the messages, the tools
\* or the context.  In every step a setter changes nothing but the one field
\* (for WithMaxPrice the two fields) it sets.
C27_SetterReplacesItsField ==
    /\ [](\A i \in Handles : \A f \in ScalarFields : \A v1, v2 \in SetterValues(f) :
            LET b == builders[i]
                once == AfterSetter(b, f, v2)
                twice == AfterSetter(AfterSetter(b, f, v1), f, v2)
                body == RequestBodyMap(heap, twice)
            IN  /\ twice = once
                /\ \A g \in Assigned(f) : twice[g] = Set(v2)
                /\ \A g \in DOMAIN b \ Assigned(f) : twice[g] = b[g]
                /\ f \in NumberFields => body[KeyOf(f)] = JNum(v2)
                /\ f = "model" => body["model"] = JStr(v2)
                /\ f = "structuredOutputs" => body["structured_outputs"] = JBool(v2))
    /\ [][ret'.op \notin NotSetters \cup MessageSetters
             => /\ \/ Changed(ret'.recv) = {}
                   \/ \E f \in ScalarFields \cup {"ctx"} : Changed(ret'.recv) \subseteq Assigned(f)
                /\ \A g \in Changed(ret'.recv) \ {"ctx"} : builders'[ret'.recv][g].IsSet
                /\ heap' = heap]_vars

\* The temperature was set to 1, as it is after setting it to 0 and then to
\* 1, on a Configuration that has a message.
C27_Witness ==
    /\ ret.op = "WithTemperature"
    /\ Receiver.temperature = Set(1)
    /\ AfterSetter(AfterSetter(Receiver, "temperature", 0), "temperature", 1) = Receiver
    /\ ~Receiver.seed.IsSet
    /\ Len(Messages(ret.recv)) = 1

\* C28: an Execute step, whatever it returns, leaves every Configuration
\* with its messages and tools as it was, and an Execute that follows another
\* on the same Configuration with no setter call between assembles the same
\* request body.
C28_ExecuteLeavesConfiguration ==
    [][ret'.op = "Execute"
          => /\ builders' = builders
             /\ heap' = heap
             /\ \A i \in Handles : ConfigOf(heap', builders', i) = ConfigOf(heap, builders, i)
             /\ (ret.op = "Execute" /\ ret.recv = ret'.recv)
                    => /\ ret'.out.assembled = ret.out.assembled
                       /\ ret'.out.body = ret.out.body]_vars

\* An Execute that was answered with status 402 has returned, on a
\* Configuration with two messages and a tool.
C28_Witness ==
    /\ Executed
    /\ ret.out.err = ErrStatus(StatusPaymentRequired)
    /\ Len(Messages(ret.recv)) = 2
    /\ Len(ToolsOf(ret.recv)) = 1

\* C29: when the answer to the request has a status other than 200, Execute
\* returns the zero response and the error that names that status, whatever
\* the body holds; and when Execute returns no error, the answer had status
\* 200 and the response returned is the one decoded from its body.
C29_OnlyStatusOKSucceeds ==
    Executed =>
        LET o == ret.out IN
        /\ (o.answer.kind = "response" /\ o.answer.status # StatusOK)
              => /\ o.response = ZeroResponse
                 /\ o.err = [kind |-> "request failed with status code",
                             code |-> o.answer.status]
                 /\ o.err # Nil
        /\ o.err = Nil
              => /\ o.answer.kind = "response"
                 /\ o.answer.status = StatusOK
                 /\ DecodeResponse(ResponseBody(o.answer.body)).ok
                 /\ o.response = DecodeResponse(ResponseBody(o.answer.body)).v

\* Status 402 came with a body that would have decoded without error (the
\* API's error object), and Execute returned the status error.
C29_Witness ==
    /\ Executed
    /\ ret.out.answer.kind = "response"
    /\ ret.out.answer.status = StatusPaymentRequired
    /\ ret.out.answer.body = "error"
    /\ DecodeResponse(ResponseBody("error")).ok
    /\ ret.out.err.kind = "request failed with status code"

\* C30: when UnmarshalJSON returns an error, the text was neither empty nor
\* null and the Optional is what it was before the call; a text that is not
\* the JSON of a T (01 for an int, nul for a bool, an unterminated string)
\* gives that error; the empty text gives no error and leaves the Optional
\* unset.
C30_DecodeFailureKeepsReceiver ==
    Unmarshalled =>
        /\ ret.err # Nil
              => /\ ret.err = ErrUnmarshal
                 /\ ret.recv = ret.before
                 /\ ret.data # <<>>
                 /\ ret.data # NullLiteral
        /\ (ret.data \notin {<<>>, NullLiteral} /\ ~Parse(ret.type, ret.data).ok)
              => ret.err # Nil
        /\ (ret.type = "int" /\ ret.data = <<"0", "1">>) => ret.err # Nil
        /\ (ret.type = "bool" /\ ret.data = <<"n", "u", "l">>) => ret.err # Nil
        /\ (ret.type = "string" /\ ret.data = <<Quote, "h">>) => ret.err # Nil
        /\ ret.data = <<>> => ret.err = Nil /\ ~ret.recv.IsSet

\* An Optional[int] that held 42 was unmarshalled from the text 01, and still
\* holds 42.
C30_Witness ==
    /\ Unmarshalled
    /\ ret.type = "int"
    /\ ret.before = Set(42)
    /\ ret.data = <<"0", "1">>
    /\ ret.err = ErrUnmarshal
    /\ ret.recv = Set(42)

====
